---- MODULE Spec2Model ----
(***************************************************************************)
(* Model of lowvoicebot.py: the in-memory whisper map, the map of          *)
(* expiration tasks, and the handlers that create, reveal, save and expire *)
(* whispers.  Handlers are coroutines on one asyncio event loop: the code  *)
(* between two awaits runs as one step, and steps of different handlers    *)
(* and tasks interleave at the awaits.                                     *)
(***************************************************************************)
EXTENDS Integers, Sequences, FiniteSets, Bags, TLC

VARIABLES
    now,             \* wall clock in whole seconds, int(now())
    whispers,        \* dict: whisper id -> WhisperEntry
    expiring_tasks,  \* dict: whisper id -> task handle (index into tasks)
    tasks,           \* the asyncio tasks made by create_task, in creation order
    inline,          \* inline handlers suspended in `await query.answer(...)`
    expiring,        \* callback handlers suspended in expire_whisper's sleep(0)
    updates,         \* well-formed inline queries Telegram has not delivered yet
    last,            \* how the last step ended and what it sent to the requester
    removed,         \* history: ids whose record has been popped at least once
    resolve_cache,   \* alru_cache of resolve_user: entries, least recently used first
    requests         \* history: the HTTP requests of resolve_user, in order

vars == <<now, whispers, expiring_tasks, tasks, inline, expiring, updates, last,
          removed, resolve_cache, requests>>

\* the state of the resolver
resolver == <<resolve_cache, requests>>

----------------------------------------------------------------------------
(* Bounds of the model *)

MaxPending == 2   \* EXPIRE handlers suspended at the same time

(* Program constants *)

TTL == 15              \* expire_whisper(whisper_id, 15)
MAXSIZE == 1024        \* @alru_cache(maxsize=1024)
ANNOUNCED_TTL == 1800  \* "expiring in 30 minutes."

----------------------------------------------------------------------------
(* Values *)

\* message.from_user.username is a str or None
Name(s) == [some |-> TRUE, val |-> s]
NoName == [some |-> FALSE, val |-> <<>>]

\* types.User objects; equality of two users is equality of their fields
Alice == [uid |-> 1, username |-> Name(<<"a">>)]
Bob == [uid |-> 2, username |-> Name(<<"b">>)]
Carol == [uid |-> 3, username |-> NoName]
Users == {Alice, Bob, Carol}
Senders == {Alice, Carol}
NoUser == [uid |-> 0, username |-> NoName]

\* query.query, already cut at the first run of whitespace: <<>> is the empty
\* query, <<r>> a query of one word, <<r, w>> recipient word and message
InlineQuery(from_user, query) == [from_user |-> from_user, query |-> query]

\* the well-formed inline queries, each delivered once
InlineUpdates ==
    {InlineQuery(Alice, <<(<<"@", "b">>), (<<"x">>)>>),
     InlineQuery(Carol, <<(<<"b">>), (<<"x">>)>>)}

\* the seconds of the clock in which inline queries arrive
ArrivalSeconds == {0, TTL}

\* malformed inline queries: they may come at any time, any number of times
BadQueries == {<<>>, <<(<<"@", "b">>)>>}

\* CPython object addresses of the message strings made by str.split
CachedAddr == 0
HeapAddrs == {1}


\* a str object: its address (id(whisper)) and its characters
Str(addr, text) == [addr |-> addr, text |-> text]

WhisperEntry(sender, recipient, content) ==
    [sender |-> sender, recipient |-> recipient, content |-> content]

NoEntry == WhisperEntry(NoUser, <<>>, Str(CachedAddr, <<>>))

\* whisper_id = f"WHISPER-{int(now()):x}-{id(whisper):x}": the two numbers,
\* each written in hexadecimal, separated by "-"; the text determines both
WhisperId(sec, addr) == <<sec, addr>>

\* an id no creation issues: a hand-made deep link or callback payload
BogusId == WhisperId(-1, CachedAddr)

\* texts shown to the requester
MSG_EXPIRED == "The message is expired or non-existent."
MSG_DENIED == "You are neither the sender nor recipient."
MSG_UNSUPPORTED == "Unsupported Action"
MSG_SUCCESS == "Successfully expired."
MSG_REVEAL == "From {sender} to @{recipient}: {content}"
MSG_SAVE == "Message from {sender} to @{recipient}: {content}"
NoText == ""

\* what a step did: the request (a button's action, SAVE for the deep link,
\* INLINE for an inline query, TIMER for an expiration task), how it ended, the
\* text it sent to the requester, the entry whose fields it sent (shown) and the
\* entry it removed (popped)
Ev(action, outcome, text, shown, popped) ==
    [action |-> action, outcome |-> outcome, text |-> text, shown |-> shown,
     popped |-> popped]

----------------------------------------------------------------------------
(* Helpers *)

\* if recipient.startswith("@"): recipient = recipient[1:]
StripMarker(recipient) ==
    IF Len(recipient) > 0 /\ Head(recipient) = "@" THEN Tail(recipient) ELSE recipient

\* username != whisper.recipient, where username may be None
UsernameDiffers(username, recipient) == ~(username.some /\ username.val = recipient)

\* the negation of the guard that raises "You are neither the sender nor recipient."
Authorized(user, whisper) ==
    ~(UsernameDiffers(user.username, whisper.recipient) /\ user # whisper.sender)

\* addresses of the message strings that are still referenced: by a stored
\* entry, by a suspended inline handler, by the entry a suspended callback
\* handler has fetched
LiveAddrs ==
    {whispers[i].content.addr : i \in DOMAIN whispers}
        \cup {h.content.addr : h \in inline}
        \cup {h.whisper.content.addr : h \in BagToSet(expiring)}

\* where str.split may put the message string: CPython shares the one-character
\* strings, any longer string is a new object at an address no live string has
SplitAddrs(text) ==
    IF Len(text) = 1 THEN {CachedAddr} ELSE HeapAddrs \ LiveAddrs

\* variant: the stored task is left running
CancelStoredNot(id) == tasks

\* expire_whisper, the part before the coroutine is made: cancel the stored task ...
CancelStored(id) ==
    IF id \in DOMAIN expiring_tasks
    THEN [tasks EXCEPT ![expiring_tasks[id]].state =
              IF @ = "sleeping" THEN "cancelled" ELSE @]
    ELSE tasks

\* ... and del expiring_tasks[id]
DropStored(id) == [k \in DOMAIN expiring_tasks \ {id} |-> expiring_tasks[k]]

\* whispers.pop(id) on a present id
Popped(id) == [k \in DOMAIN whispers \ {id} |-> whispers[k]]

\* asyncio.create_task(_expire_whisper(id, in_seconds))
NewTask(id, in_seconds) ==
    [id |-> id, armed |-> now, deadline |-> now + in_seconds, state |-> "sleeping"]


\* d[k] = v
Put(d, k, v) == [x \in DOMAIN d \cup {k} |-> IF x = k THEN v ELSE d[x]]

\* what resolve_user may return for a handle: a display name, or None
ResolveResults == {"DisplayName", "None"}

\* how the request for https://t.me/{username} can end: the session raises, the
\* status is not 200, the page has no tgme_page_title, or the title is found
LookupOutcomes == {"network_error", "status_not_200", "no_pattern", "matched"}

\* the exception the body of the try raises for an outcome, "" when it raises none:
\* the client's error, the failed assert, .group of the None that search returned
Raised(outcome) ==
    CASE outcome = "network_error" -> "ClientError"
      [] outcome = "status_not_200" -> "AssertionError"
      [] outcome = "no_pattern" -> "AttributeError"
      [] OTHER -> ""

\* variant: only the errors of the HTTP client are caught
CaughtClientErrorOnly(exc) == exc = "ClientError"

\* except Exception: the three are subclasses of Exception
Caught(exc) == exc \in {"ClientError", "AssertionError", "AttributeError"}

\* the body of resolve_user for one request: the title, None after a caught
\* exception, "raise" when the exception leaves the function
fetch_user(outcome) ==
    IF Raised(outcome) = "" THEN "DisplayName"
    ELSE IF Caught(Raised(outcome)) THEN "None"
    ELSE "raise"

\* the positions of the cache that hold username
CachedAt(username) ==
    {k \in DOMAIN resolve_cache : resolve_cache[k].username = username}

IsCached(username) == CachedAt(username) # {}

\* the cache without the entry of username
CacheWithout(username) ==
    SelectSeq(resolve_cache, LAMBDA e : e.username # username)

\* resolve_user(username) through alru_cache: a cached result is returned as
\* it is, a miss runs the body, whose request ends with `outcome`
resolve_user(username, outcome) ==
    IF IsCached(username)
    THEN resolve_cache[CHOOSE k \in CachedAt(username) : TRUE].result
    ELSE fetch_user(outcome)

\* variant: a result of None is not kept in the cache
CacheAfterNoneDropped(username, result) ==
    IF result = "DisplayName"
    THEN Append(CacheWithout(username), [username |-> username, result |-> result])
    ELSE resolve_cache

\* the cache after the call returned result: the entry becomes the most recently
\* used one, and over maxsize the least recently used one is dropped; a call
\* that raised leaves no result
CacheAfter(username, result) ==
    IF result = "raise" THEN resolve_cache
    ELSE LET c == Append(CacheWithout(username),
                         [username |-> username, result |-> result])
         IN  IF Len(c) > MAXSIZE THEN Tail(c) ELSE c

\* session.get is called on a miss only
RequestsAfter(username, outcome) ==
    IF IsCached(username) THEN requests
    ELSE Append(requests, [username |-> username, outcome |-> outcome])

\* ids that have been sent out in buttons and deep links, and one that never was
KnownIds == DOMAIN whispers \cup removed \cup {BogusId}

----------------------------------------------------------------------------
(* Initial state: empty dicts, no task, no handler running *)

Init ==
    /\ now = 0
    /\ whispers = <<>>
    /\ expiring_tasks = <<>>
    /\ tasks = <<>>
    /\ inline = {}
    /\ expiring = EmptyBag
    /\ updates = InlineUpdates
    /\ last = Ev("", "start", NoText, NoEntry, NoEntry)
    /\ removed = {}
    /\ resolve_cache = <<>>
    /\ requests = <<>>

----------------------------------------------------------------------------
(* whisper_inline_handler, from the inline query to `await query.answer`    *)

\* raise ReadableException((code, title, text)), answered with one article
InlineError(code) ==
    /\ UNCHANGED inline
    /\ last' = Ev("INLINE", code, NoText, NoEntry, NoEntry)

\* an exception that is no ReadableException leaves the handler: no answer
InlineUnhandled ==
    /\ UNCHANGED inline
    /\ last' = Ev("INLINE", "unhandled", NoText, NoEntry, NoEntry)

\* the result articles are built and sent: the handler waits for the answer
InlineOffer(sender, recipient, whisper, whisper_id) ==
    /\ inline' = inline \cup {[id |-> whisper_id, sender |-> sender,
                               recipient |-> recipient, content |-> whisper]}
    /\ last' = Ev("INLINE", "offered", NoText, NoEntry, NoEntry)

whisper_inline_handler(sender, q) ==
    /\ now \in ArrivalSeconds
    /\ UNCHANGED <<now, whispers, expiring_tasks, tasks, expiring, removed>>
    /\ updates' = updates \ {InlineQuery(sender, q)}
    /\ IF Len(q) = 0 THEN InlineError("EMPTY_ARG") /\ UNCHANGED resolver
       ELSE IF Len(q) = 1 THEN InlineError("USAGE_ERROR") /\ UNCHANGED resolver
       ELSE \E addr \in SplitAddrs(q[2]), outcome \in LookupOutcomes :
            LET recipient == StripMarker(q[1])
                whisper == Str(addr, q[2])
                recipient_name == resolve_user(recipient, outcome)
                whisper_id == WhisperId(now, addr)
            IN  /\ resolve_cache' = CacheAfter(recipient, recipient_name)
                /\ requests' = RequestsAfter(recipient, outcome)
                /\ IF recipient_name = "raise" THEN InlineUnhandled
                   ELSE IF recipient_name = "None"
                   THEN InlineError("INVALID_USERNAME")
                   ELSE InlineOffer(sender, recipient, whisper, whisper_id)

(* whisper_inline_handler, after `await query.answer`: result is what the   *)
(* call gave: True, something else, or the exception InvalidQueryID         *)

AnswerResults == {"True", "False", "InvalidQueryID"}

\* variant: the task is created without expire_whisper's cancel of the stored one
whisper_inline_answered_no_cancel(h, result) ==
    /\ h \in inline
    /\ inline' = inline \ {h}
    /\ UNCHANGED <<now, expiring, updates, removed, resolver>>
    /\ IF result = "True"
       THEN /\ whispers' = Put(whispers, h.id,
                               WhisperEntry(h.sender, h.recipient, h.content))
            /\ tasks' = Append(tasks, NewTask(h.id, TTL))
            /\ expiring_tasks' = Put(expiring_tasks, h.id, Len(tasks) + 1)
            /\ last' = Ev("INLINE", "stored", NoText, NoEntry, NoEntry)
       ELSE /\ UNCHANGED <<whispers, tasks, expiring_tasks>>
            /\ last' = Ev("INLINE", "not_stored", NoText, NoEntry, NoEntry)

\* variant: the record is stored and its timer armed whatever the answer gave
whisper_inline_answered_unchecked(h, result) ==
    /\ h \in inline
    /\ UNCHANGED resolver
    /\ inline' = inline \ {h}
    /\ UNCHANGED <<now, expiring, updates, removed>>
    /\ whispers' = Put(whispers, h.id, WhisperEntry(h.sender, h.recipient, h.content))
    /\ tasks' = Append(CancelStored(h.id), NewTask(h.id, TTL))
    /\ expiring_tasks' = Put(DropStored(h.id), h.id, Len(tasks) + 1)
    /\ last' = Ev("INLINE", IF result = "True" THEN "stored" ELSE "not_stored",
                  NoText, NoEntry, NoEntry)

whisper_inline_answered(h, result) ==
    /\ h \in inline
    /\ UNCHANGED resolver
    /\ inline' = inline \ {h}
    /\ UNCHANGED <<now, expiring, updates, removed>>
    /\ IF result = "True"
       THEN /\ whispers' = Put(whispers, h.id,
                               WhisperEntry(h.sender, h.recipient, h.content))
            /\ tasks' = Append(CancelStored(h.id), NewTask(h.id, TTL))
            /\ expiring_tasks' = Put(DropStored(h.id), h.id, Len(tasks) + 1)
            /\ last' = Ev("INLINE", "stored", NoText, NoEntry, NoEntry)
       ELSE /\ UNCHANGED <<whispers, tasks, expiring_tasks>>
            /\ last' = Ev("INLINE", "not_stored", NoText, NoEntry, NoEntry)

----------------------------------------------------------------------------
(* The task made by create_task(expire_whisper(id, 15)): after the sleep,   *)
(* whispers.pop(id), which raises KeyError when the id is not there         *)

_expire_whisper(t) ==
    /\ t \in DOMAIN tasks
    /\ UNCHANGED resolver
    /\ tasks[t].state = "sleeping"
    /\ now >= tasks[t].deadline
    /\ UNCHANGED <<now, expiring_tasks, inline, expiring, updates>>
    /\ LET id == tasks[t].id
       IN  IF id \in DOMAIN whispers
           THEN /\ whispers' = Popped(id)
                /\ removed' = removed \cup {id}
                /\ tasks' = [tasks EXCEPT ![t].state = "done"]
                /\ last' = Ev("TIMER", "expired", NoText, NoEntry, whispers[id])
           ELSE /\ UNCHANGED <<whispers, removed>>
                /\ tasks' = [tasks EXCEPT ![t].state = "KeyError"]
                /\ last' = Ev("TIMER", "KeyError", NoText, NoEntry, NoEntry)

----------------------------------------------------------------------------
(* whisper_callback_handler: the buttons REVEAL|id and EXPIRE|id            *)

\* variant: expire_whisper is called before the checks, so a denied request
\* has already cancelled and dropped the task of the id
CallbackDeniedCancels(action, id, outcome, text) ==
    /\ tasks' = CancelStored(id)
    /\ expiring_tasks' = DropStored(id)
    /\ UNCHANGED <<whispers, expiring>>
    /\ last' = Ev(action, outcome, text, NoEntry, NoEntry)

\* raise ReadableException(text), answered by answer_error
CallbackDenied(action, id, outcome, text) ==
    /\ UNCHANGED <<whispers, expiring_tasks, tasks, expiring>>
    /\ last' = Ev(action, outcome, text, NoEntry, NoEntry)

\* variant: the record is popped as it is revealed
CallbackRevealPops(user, id) ==
    /\ whispers' = Popped(id)
    /\ UNCHANGED <<expiring_tasks, tasks, expiring>>
    /\ last' = Ev("REVEAL", "revealed", MSG_REVEAL, whispers[id], NoEntry)

\* query.answer(f"From {sender} to @{recipient}: {content}", show_alert=True)
CallbackReveal(user, id) ==
    /\ UNCHANGED <<whispers, expiring_tasks, tasks, expiring>>
    /\ last' = Ev("REVEAL", "revealed", MSG_REVEAL, whispers[id], NoEntry)

\* await expire_whisper(whisper_id), up to the sleep(0) of the coroutine
CallbackExpire(user, id) ==
    /\ BagCardinality(expiring) < MaxPending
    /\ tasks' = CancelStored(id)
    /\ expiring_tasks' = DropStored(id)
    /\ expiring' = expiring (+) SetToBag({[id |-> id, user |-> user,
                                           whisper |-> whispers[id]]})
    /\ UNCHANGED whispers
    /\ last' = Ev("EXPIRE", "expiring", NoText, NoEntry, NoEntry)

Actions == {"REVEAL", "EXPIRE", "SHARE"}

whisper_callback_handler(user, action, id) ==
    /\ UNCHANGED resolver
    /\ UNCHANGED <<now, inline, updates, removed>>
    /\ IF id \notin DOMAIN whispers
       THEN CallbackDenied(action, id, "not_found", MSG_EXPIRED)
       ELSE IF ~Authorized(user, whispers[id])
       THEN CallbackDenied(action, id, "unauthorized", MSG_DENIED)
       ELSE IF action = "REVEAL" THEN CallbackReveal(user, id)
       ELSE IF action = "EXPIRE" THEN CallbackExpire(user, id)
       ELSE CallbackDenied(action, id, "unsupported", MSG_UNSUPPORTED)

\* variant: the coroutine made by expire_whisper is not awaited: the handler
\* answers "Successfully expired." without the pop
expire_resumed_without_pop(h) ==
    /\ BagIn(h, expiring)
    /\ UNCHANGED resolver
    /\ expiring' = expiring (-) SetToBag({h})
    /\ UNCHANGED <<now, whispers, expiring_tasks, tasks, inline, updates, removed>>
    /\ last' = Ev("EXPIRE", "expired", MSG_SUCCESS, NoEntry, NoEntry)

(* The coroutine awaited by the handler, after its sleep(0): whispers.pop,  *)
(* then the handler answers "Successfully expired."; a KeyError of the pop  *)
(* is no ReadableException and leaves the handler unanswered                *)

expire_resumed(h) ==
    /\ BagIn(h, expiring)
    /\ UNCHANGED resolver
    /\ expiring' = expiring (-) SetToBag({h})
    /\ UNCHANGED <<now, expiring_tasks, tasks, inline, updates>>
    /\ IF h.id \in DOMAIN whispers
       THEN /\ whispers' = Popped(h.id)
            /\ removed' = removed \cup {h.id}
            /\ last' = Ev("EXPIRE", "expired", MSG_SUCCESS, NoEntry, whispers[h.id])
       ELSE /\ UNCHANGED <<whispers, removed>>
            /\ last' = Ev("EXPIRE", "KeyError", NoText, NoEntry, NoEntry)

----------------------------------------------------------------------------
(* start_save_handler: the deep link /start SAVE_id                         *)

start_save_handler(user, id) ==
    /\ UNCHANGED resolver
    /\ UNCHANGED <<now, whispers, expiring_tasks, tasks, inline, expiring,
                   updates, removed>>
    /\ IF id \notin DOMAIN whispers
       THEN last' = Ev("SAVE", "not_found", MSG_EXPIRED, NoEntry, NoEntry)
       ELSE IF ~Authorized(user, whispers[id])
       THEN last' = Ev("SAVE", "unauthorized", MSG_DENIED, NoEntry, NoEntry)
       ELSE last' = Ev("SAVE", "saved", MSG_SAVE, whispers[id], NoEntry)

----------------------------------------------------------------------------
(* Time.  The clock matters to the program at two places: the second in a   *)
(* whisper id, and the deadline of a sleep.  asyncio.sleep(15) ends no      *)
(* earlier than its deadline, and the clock moves from one deadline to the  *)
(* next.  asyncio.sleep(0) gives up one pass of the event loop and takes no *)
(* time, so the clock stands still while a handler is suspended in it.      *)

Deadlines ==
    {tasks[t].deadline : t \in {u \in DOMAIN tasks : tasks[u].state = "sleeping"}}

AdvanceToDeadline ==
    /\ expiring = EmptyBag
    /\ UNCHANGED resolver
    /\ \E d \in Deadlines :
         /\ d > now
         /\ \A e \in Deadlines : e > now => d <= e
         /\ now' = d
    /\ last' = Ev("CLOCK", "clock", NoText, NoEntry, NoEntry)
    /\ UNCHANGED <<whispers, expiring_tasks, tasks, inline, expiring, updates,
                   removed>>

----------------------------------------------------------------------------

Next ==
    \/ \E u \in updates : whisper_inline_handler(u.from_user, u.query)
    \/ \E sender \in Senders, q \in BadQueries : whisper_inline_handler(sender, q)
    \/ \E h \in inline, result \in AnswerResults : whisper_inline_answered(h, result)
    \/ \E t \in DOMAIN tasks : _expire_whisper(t)
    \/ \E user \in Users, action \in Actions, id \in KnownIds :
          whisper_callback_handler(user, action, id)
    \/ \E h \in BagToSet(expiring) : expire_resumed(h)
    \/ \E user \in Users, id \in KnownIds : start_save_handler(user, id)
    \/ AdvanceToDeadline

Spec == Init /\ [][Next]_vars

(* Scheduling: the event loop runs every task and handler that is ready, so *)
(* a sleep that has reached its deadline ends and a handler suspended in    *)
(* sleep(0) goes on; and time passes.                                       *)

Fairness ==
    /\ WF_vars(AdvanceToDeadline)
    /\ \A t \in 1..Cardinality(InlineUpdates) : WF_vars(_expire_whisper(t))
    /\ WF_vars(\E h \in BagToSet(expiring) : expire_resumed(h))

FairSpec == Spec /\ Fairness

----------------------------------------------------------------------------
(* Who may see or erase a record, in the words of the specification: the    *)
(* sender, or an actor whose own handle is the stored recipient handle      *)

MayAccess(user, entry) ==
    \/ user = entry.sender
    \/ (user.username.some /\ user.username.val = entry.recipient)

MapsUnchanged ==
    /\ whispers' = whispers
    /\ expiring_tasks' = expiring_tasks
    /\ tasks' = tasks

\* C1: for a stored record, a REVEAL, an EXPIRE or a SAVE is accepted iff the
\* requester is the sender or has the recipient handle as username; anyone
\* else is denied, is sent no content, and removes no record.
C1_Authorization ==
    [][ /\ \A u \in Users, i \in DOMAIN whispers :
            /\ whisper_callback_handler(u, "REVEAL", i) =>
                   IF MayAccess(u, whispers[i])
                   THEN last'.outcome = "revealed" /\ last'.shown = whispers[i]
                   ELSE /\ last'.outcome = "unauthorized"
                        /\ last'.shown = NoEntry
                        /\ MapsUnchanged
            /\ whisper_callback_handler(u, "EXPIRE", i) =>
                   IF MayAccess(u, whispers[i])
                   THEN last'.outcome = "expiring"
                   ELSE /\ last'.outcome = "unauthorized"
                        /\ last'.shown = NoEntry
                        /\ MapsUnchanged
            /\ start_save_handler(u, i) =>
                   IF MayAccess(u, whispers[i])
                   THEN last'.outcome = "saved" /\ last'.shown = whispers[i]
                   ELSE /\ last'.outcome = "unauthorized"
                        /\ last'.shown = NoEntry
                        /\ MapsUnchanged
        /\ \A h \in BagToSet(expiring) :
            (expire_resumed(h) /\ last'.outcome = "expired")
                => MayAccess(h.user, last'.popped)
      ]_vars

\* C2: once the record of an id has been removed, every later REVEAL, SAVE or
\* EXPIRE on that id gets the not-found outcome and is sent no content.
C2_OneShotDeletion ==
    [][ \A u \in Users, i \in removed :
            /\ \A a \in Actions :
                   whisper_callback_handler(u, a, i)
                       => last'.outcome = "not_found" /\ last'.shown = NoEntry
            /\ start_save_handler(u, i)
                   => last'.outcome = "not_found" /\ last'.shown = NoEntry
      ]_vars

\* C3: an EXPIRE handler that was let through ends answered: with success when
\* it removes the record, with the not-found outcome when another EXPIRE has
\* removed it meanwhile; it never ends in an unhandled KeyError.
C3_IdempotentExpire ==
    [][ \A h \in BagToSet(expiring) :
            expire_resumed(h) =>
                IF h.id \in DOMAIN whispers
                THEN last'.outcome = "expired"
                ELSE last'.outcome = "not_found" /\ last'.text = MSG_EXPIRED
      ]_vars

\* C4: a requester who is neither sender nor recipient is answered the same
\* text whether the id never existed, has expired, or exists.
C4_InformationHiding ==
    (last.action \in {"REVEAL", "EXPIRE", "SAVE"} /\ last.outcome = "unauthorized")
        => last.text = MSG_EXPIRED


\* C5: a REVEAL or a SAVE, granted or denied, changes neither the whisper map
\* nor the timer map nor any task, and on a live id an authorized requester is
\* sent the stored record every time.
C5_NonDestructiveReveal ==
    [][ \A u \in Users, i \in KnownIds :
            (whisper_callback_handler(u, "REVEAL", i) \/ start_save_handler(u, i)) =>
                /\ MapsUnchanged
                /\ (i \in DOMAIN whispers /\ MayAccess(u, whispers[i]))
                       => /\ last'.outcome \in {"revealed", "saved"}
                          /\ last'.shown = whispers[i]
                          /\ i \in DOMAIN whispers'
      ]_vars

C5_Witness ==
    /\ last.action = "REVEAL"
    /\ last.outcome = "revealed"
    /\ \E i \in DOMAIN whispers :
         /\ whispers[i] = last.shown
         /\ i \in DOMAIN expiring_tasks
         /\ tasks[expiring_tasks[i]].state = "sleeping"

\* every id a creation can issue
AllIds == {WhisperId(sec, addr) : sec \in ArrivalSeconds, addr \in {CachedAddr} \cup HeapAddrs}

\* C6: every record in the whisper map is eventually removed, also when no
\* EXPIRE is ever requested and also when an EXPIRE has cancelled its timer.
C6_EventualDeletion ==
    \A i \in AllIds : (i \in DOMAIN whispers) ~> (i \notin DOMAIN whispers)

C6_Witness ==
    /\ last.action = "EXPIRE"
    /\ last.outcome = "expired"
    /\ last.popped # NoEntry
    /\ whispers = <<>>
    /\ \E t \in DOMAIN tasks : tasks[t].state = "cancelled"

\* C7: the timer armed at creation removes the record no earlier than the
\* announced 30 minutes after it was armed.
C7_AnnouncedTTL ==
    \A t \in DOMAIN tasks :
        tasks[t].state = "done" => now >= tasks[t].armed + ANNOUNCED_TTL

\* C8: two creations never get the same id, a creation never overwrites a live
\* record, and an id whose record was removed never becomes live again.
C8_UniqueIds ==
    [][ /\ \A h1, h2 \in inline' : h1 # h2 => h1.id # h2.id
        /\ \A h \in inline :
              whisper_inline_answered(h, "True")
                  => h.id \notin DOMAIN whispers /\ h.id \notin removed
      ]_vars

\* C9: a timer and an EXPIRE handler never both act on a record: the handler
\* that passed the presence check leaves no sleeping task for the id, no task
\* removes the record of an id while a handler is suspended on it, and an
\* EXPIRE that comes after the removal gets not-found and touches no task.
C9_CancelVersusFire ==
    [][ /\ \A u \in Users, i \in KnownIds :
              whisper_callback_handler(u, "EXPIRE", i) =>
                  IF last'.outcome = "expiring"
                  THEN \A t \in DOMAIN tasks' :
                          tasks'[t].id = i => tasks'[t].state # "sleeping"
                  ELSE tasks' = tasks /\ whispers' = whispers
        /\ \A t \in DOMAIN tasks :
              (_expire_whisper(t) /\ last'.outcome = "expired")
                  => \A h \in BagToSet(expiring) : h.id # tasks[t].id
      ]_vars

C9_Witness ==
    /\ last.action = "EXPIRE"
    /\ last.outcome = "expired"
    /\ last.popped # NoEntry
    /\ \E t \in DOMAIN tasks : tasks[t].state = "cancelled" /\ now >= tasks[t].deadline

\* C10: a denied callback (id absent, requester neither sender nor recipient,
\* or unsupported action) leaves whisper map, timer map and tasks as they were.
C10_DeniedExpireNoEffect ==
    [][ \A u \in Users, a \in Actions, i \in KnownIds :
            whisper_callback_handler(u, a, i) =>
                /\ (a = "EXPIRE" /\ i \in DOMAIN whispers /\ MayAccess(u, whispers[i]))
                       \/ (a = "REVEAL" /\ last'.outcome \in {"revealed", "not_found", "unauthorized"})
                       \/ last'.outcome \in {"not_found", "unauthorized", "unsupported"}
                /\ last'.outcome \in {"not_found", "unauthorized", "unsupported"}
                       => MapsUnchanged /\ expiring' = expiring
      ]_vars

C10_Witness ==
    /\ last.action = "EXPIRE"
    /\ last.outcome = "unauthorized"
    /\ \E i \in DOMAIN whispers :
         /\ i \in DOMAIN expiring_tasks
         /\ tasks[expiring_tasks[i]].state = "sleeping"

\* the failures of a creation: the three ReadableException codes of the inline
\* handler, and an answer that raised InvalidQueryID or did not return True
CreationFailures == {"EMPTY_ARG", "USAGE_ERROR", "INVALID_USERNAME", "not_stored"}

\* C11: an inline handler that ends in a failure, or that has only sent its
\* offer, inserts no record and arms no timer; a record is inserted and a task
\* created only by the step that follows an answer that returned True, and that
\* step does both: afterwards the id has its record and a sleeping task.
C11_FailedCreationStoresNothing ==
    [][ /\ (last'.action = "INLINE" /\ last'.outcome # "stored") => MapsUnchanged
        /\ ((\E i \in DOMAIN whispers' :
                   i \notin DOMAIN whispers \/ whispers'[i] # whispers[i])
               \/ Len(tasks') > Len(tasks)
               \/ \E h \in inline : whisper_inline_answered(h, "True"))
           => /\ last'.action = "INLINE" /\ last'.outcome = "stored"
              /\ \E h \in inline :
                    /\ whisper_inline_answered(h, "True")
                    /\ h.id \in DOMAIN whispers'
                    /\ h.id \in DOMAIN expiring_tasks'
                    /\ tasks'[expiring_tasks'[h.id]] = NewTask(h.id, TTL)
                    /\ Len(tasks') = Len(tasks) + 1
      ]_vars

C11_Witness ==
    /\ last.action = "INLINE"
    /\ last.outcome \in CreationFailures
    /\ inline = {}
    /\ updates = {}
    /\ whispers = <<>>
    /\ tasks = <<>>

\* C12: a call of resolve_user for a handle that is in the cache returns the
\* cached result, a display name or None, and issues no request; a call for a
\* handle that is not in the cache issues exactly one request for that handle;
\* after a call the handle is cached with the result the call returned; so the
\* number of requests is the number of misses.
C12_ResolverMemoization ==
    [][ \A u \in updates :
          LET username == StripMarker(u.query[1])
              returned_none == last'.outcome = "INVALID_USERNAME"
          IN  whisper_inline_handler(u.from_user, u.query) =>
                /\ IF IsCached(username)
                   THEN /\ requests' = requests
                        /\ \A k \in CachedAt(username) :
                              returned_none <=> resolve_cache[k].result = "None"
                   ELSE /\ Len(requests') = Len(requests) + 1
                        /\ requests'[Len(requests')].username = username
                /\ \E k \in DOMAIN resolve_cache' :
                      /\ resolve_cache'[k].username = username
                      /\ returned_none <=> resolve_cache'[k].result = "None"
                /\ Len(requests') = Len(resolve_cache')
      ]_vars

C12_Witness ==
    /\ updates = {}
    /\ Len(requests) = 1
    /\ last.action = "INLINE"
    /\ last.outcome = "INVALID_USERNAME"
    /\ \E k \in DOMAIN resolve_cache : resolve_cache[k].result = "None"

\* C13: every request of resolve_user ended in a returned value, a display
\* name exactly when the page answered 200 with the title pattern and None for
\* a network error, another status or a page without the pattern; no inline
\* handler is left by an exception of the resolver.
C13_ResolverFailuresAreValues ==
    /\ \A k \in DOMAIN requests :
          \E j \in DOMAIN resolve_cache :
              /\ resolve_cache[j].username = requests[k].username
              /\ resolve_cache[j].result \in ResolveResults
              /\ resolve_cache[j].result = "DisplayName"
                     <=> requests[k].outcome = "matched"
    /\ last.outcome # "unhandled"

C13_Witness ==
    /\ Len(requests) = 1
    /\ requests[1].outcome = "no_pattern"
    /\ last.action = "INLINE"
    /\ last.outcome = "INVALID_USERNAME"
    /\ inline = {}

\* the id has a task in the timer map that is still pending
Armed(id) ==
    /\ id \in DOMAIN expiring_tasks
    /\ tasks[expiring_tasks[id]].state = "sleeping"

\* C14: whenever a REVEAL, a SAVE or an EXPIRE finds a record and is let
\* through, every record of the whisper map has a pending task in the timer
\* map: no handler sees a record whose timer was cancelled and dropped.
C14_AtomicExplicitExpire ==
    [][ \A u \in Users, i \in DOMAIN whispers :
            ((\E a \in {"REVEAL", "EXPIRE"} : whisper_callback_handler(u, a, i))
                 \/ start_save_handler(u, i))
            /\ last'.outcome \in {"revealed", "saved", "expiring"}
                => \A j \in DOMAIN whispers : Armed(j)
      ]_vars

\* C15: every id of the timer map has a record in the whisper map.
C15_TimerHandleLifetime ==
    DOMAIN expiring_tasks \subseteq DOMAIN whispers

\* the tasks of an id that are neither finished nor cancelled
PendingTasks(id) ==
    {t \in DOMAIN tasks : tasks[t].id = id /\ tasks[t].state = "sleeping"}

\* C16: no id has two pending expiration tasks, and a pending task is the one
\* the timer map holds for its id; the step that arms a timer for an id and
\* the step that starts a removal leave the task stored before not pending.
C16_OneArmedTimerPerId ==
    [][ /\ \A i \in AllIds :
              /\ Cardinality(PendingTasks(i)) <= 1
              /\ \A t \in PendingTasks(i) :
                    i \in DOMAIN expiring_tasks /\ expiring_tasks[i] = t
        /\ \A i \in DOMAIN expiring_tasks :
              ((\E h \in inline : h.id = i /\ whisper_inline_answered(h, "True"))
                  \/ (\E u \in Users : whisper_callback_handler(u, "EXPIRE", i)
                                          /\ last'.outcome = "expiring"))
              => tasks'[expiring_tasks[i]].state # "sleeping"
      ]_vars

C16_Witness ==
    \E t1, t2 \in DOMAIN tasks :
        /\ tasks[t1].id = tasks[t2].id
        /\ tasks[t1].state = "cancelled"
        /\ tasks[t2].state = "sleeping"
        /\ expiring_tasks[tasks[t2].id] = t2
        /\ last.action = "INLINE" /\ last.outcome = "stored"

\* C17: no expiration task ends in the KeyError of whispers.pop: a task that
\* finishes its sleep finds the record of its id, or does nothing.
C17_TimerFireSafeNoOp ==
    \A t \in DOMAIN tasks : tasks[t].state # "KeyError"

\* C18: the offer of a creation carries the sender, the recipient word without
\* one leading "@" and the message of its query; the store puts exactly these
\* under the id; a REVEAL or SAVE that succeeds sends the stored record; and a
\* record stays as it is from its insertion to its removal.
C18_StoredVerbatim ==
    [][ /\ \A u \in updates :
              (whisper_inline_handler(u.from_user, u.query) /\ last'.outcome = "offered")
                  => \E h \in inline' \ inline :
                        /\ h.sender = u.from_user
                        /\ h.recipient = StripMarker(u.query[1])
                        /\ h.content.text = u.query[2]
        /\ \A h \in inline :
              whisper_inline_answered(h, "True")
                  => whispers'[h.id] = WhisperEntry(h.sender, h.recipient, h.content)
        /\ \A u \in Users, i \in DOMAIN whispers :
              ((whisper_callback_handler(u, "REVEAL", i) \/ start_save_handler(u, i))
                  /\ last'.outcome \in {"revealed", "saved"})
                  => last'.shown = whispers[i]
        /\ \A i \in DOMAIN whispers \cap DOMAIN whispers' : whispers'[i] = whispers[i]
      ]_vars

====
